---- MODULE Spec2Model ----
(***************************************************************************)
(* Model of src/src/App.tsx: the recursive JSON tree filter (filterTree),  *)
(* the memoised filtering step around it, the matchedPaths effect, the     *)
(* auto-expand callback handed to the tree viewer, and the handlers that   *)
(* change the document and the search term.                                *)
(*                                                                         *)
(* Strings are sequences of one-character strings.  A JSON value is a      *)
(* record [k, s, e]: k is its kind, s the text of a string (or the literal *)
(* of a number / boolean), e the own enumerable properties of an object or *)
(* array in for-in order, each a record [key, val].  An array keeps its    *)
(* indices as keys, so that an array with holes is representable.          *)
(***************************************************************************)
EXTENDS Naturals, Sequences, FiniteSets, TLC

VARIABLES jsonData, searchTerm, matchedPaths, error, readers, memo, view, pc

vars == <<jsonData, searchTerm, matchedPaths, error, readers, memo, view, pc>>

----------------------------------------------------------------------------
(* Bounds *)

\* largest number of entries of an innermost object or array
MaxWidth == 2

\* largest number of FileReaders in flight
MaxReaders == 2

----------------------------------------------------------------------------
(* JSON values *)

StrLeaf(s) == [k |-> "str", s |-> s, e |-> <<>>]
NumLeaf(d) == [k |-> "num", s |-> <<d>>, e |-> <<>>]
BoolLeaf(b) == [k |-> "bool", s |-> <<b>>, e |-> <<>>]
NullV == [k |-> "null", s |-> <<>>, e |-> <<>>]
EmptyObj == [k |-> "obj", s |-> <<>>, e |-> <<>>]
EmptyArr == [k |-> "arr", s |-> <<>>, e |-> <<>>]

Entry(key, val) == [key |-> key, val |-> val]

\* typeof obj === 'object' && obj !== null
IsContainer(v) == v.k \in {"obj", "arr"}

\* JavaScript truthiness: null, 0, false and "" are falsy
Falsy(v) ==
    \/ v.k = "null"
    \/ v.k = "num" /\ v.s = <<"0">>
    \/ v.k = "bool" /\ v.s = <<"false">>
    \/ v.k = "str" /\ v.s = <<>>

\* the property name whose assignment on a plain object is the prototype setter
ProtoKey == <<"_", "_", "p", "r", "o", "t", "o", "_", "_">>

----------------------------------------------------------------------------
(* String primitives *)

LowerChar(c) ==
    CASE c = "A" -> "a"
      [] c = "B" -> "b"
      [] c = "C" -> "c"
      [] OTHER -> c

\* String.prototype.toLowerCase
ToLowerCase(s) == [i \in 1..Len(s) |-> LowerChar(s[i])]

IsSpace(c) == c = " "

RECURSIVE TrimStart(_)
TrimStart(s) ==
    IF s # <<>> /\ IsSpace(Head(s)) THEN TrimStart(Tail(s)) ELSE s

RECURSIVE TrimEnd(_)
TrimEnd(s) ==
    IF s # <<>> /\ IsSpace(s[Len(s)]) THEN TrimEnd(SubSeq(s, 1, Len(s) - 1)) ELSE s

\* String.prototype.trim
Trim(s) == TrimEnd(TrimStart(s))

\* String.prototype.includes
Includes(s, t) ==
    \E i \in 0..Len(s) : i + Len(t) <= Len(s) /\ SubSeq(s, i + 1, i + Len(t)) = t

\* String.prototype.startsWith
StartsWith(s, p) == Len(p) <= Len(s) /\ SubSeq(s, 1, Len(p)) = p

\* Array.prototype.join('.')
RECURSIVE Join(_)
Join(path) ==
    IF path = <<>> THEN <<>>
    ELSE IF Len(path) = 1 THEN path[1]
    ELSE path[1] \o <<".">> \o Join(Tail(path))

----------------------------------------------------------------------------
(* filterTree *)

\* obj.toLowerCase().includes(term)
StrMatches(s, term) == Includes(ToLowerCase(s), term)

\* key.toLowerCase().includes(term)
KeyMatches(key, term) == Includes(ToLowerCase(key), term)

\* keyMatches || filtered != null
Keep(keyMatches, filtered) == keyMatches \/ filtered # NullV

\* keyMatches ? val : filtered
Chosen(keyMatches, val, filtered) == IF keyMatches THEN val ELSE filtered

\* result[key] = value.  On an array, or for an ordinary name, the
\* assignment creates the own property key.  On a plain object the name
\* __proto__ is the accessor inherited from Object.prototype: the assignment
\* sets the prototype (object or null value) or does nothing (any other
\* value), and creates no own property.
SetPropPush(result, key, value) ==
    [result EXCEPT !.e = Append(@,
        Entry(IF result.k = "arr" THEN <<"0", "1", "2", "3", "4">>[Len(@) + 1]
                                  ELSE key, value))]
SetProp(result, key, value) ==
    IF result.k = "obj" /\ key = ProtoKey
    THEN result
    ELSE [result EXCEPT !.e = Append(@, Entry(key, value))]

\* the accumulator after the recursive call of line 94: the call is made
\* whether or not the key matches, and shares the caller's matches array
MatchesAfterChildSkip(keyMatches, before, after) ==
    IF keyMatches THEN before ELSE after
MatchesAfterChild(keyMatches, before, after) == after

\* if (keyMatches) matches.push(newPath)
RecordKeyFirst(matches, keyMatches, newPath) ==
    IF keyMatches THEN <<newPath>> \o matches ELSE matches
RecordKey(matches, keyMatches, newPath) ==
    IF keyMatches THEN Append(matches, newPath) ELSE matches

\* isArray ? [] : {}
NewResult(obj) == IF obj.k = "arr" THEN EmptyArr ELSE EmptyObj

RECURSIVE filterTree(_, _, _, _)
RECURSIVE filterLoop(_, _, _, _, _, _, _)

\* the value returned and the matches array as the call leaves it
filterTree(obj, term, path, matches) ==
    IF obj.k = "str"
    THEN IF StrMatches(obj.s, term)
         THEN [res |-> obj, matches |-> Append(matches, path)]
         ELSE [res |-> NullV, matches |-> matches]
    ELSE IF ~IsContainer(obj)
    THEN [res |-> NullV, matches |-> matches]
    ELSE filterLoop(obj, term, path, 1, NewResult(obj), FALSE, matches)

\* the for-in loop from the i-th property on
filterLoop(obj, term, path, i, result, hasMatchHere, matches) ==
    IF i > Len(obj.e)
    THEN [res |-> IF hasMatchHere THEN result ELSE NullV, matches |-> matches]
    ELSE LET key == obj.e[i].key
             val == obj.e[i].val
             newPath == Append(path, key)
             keyMatches == KeyMatches(key, term)
             filtered == filterTree(val, term, newPath, matches)
             ms == MatchesAfterChild(keyMatches, matches, filtered.matches)
         IN  IF Keep(keyMatches, filtered.res)
             THEN filterLoop(obj, term, path, i + 1,
                             SetProp(result, key, Chosen(keyMatches, val, filtered.res)),
                             TRUE, RecordKey(ms, keyMatches, newPath))
             ELSE filterLoop(obj, term, path, i + 1, result, hasMatchHere, ms)

----------------------------------------------------------------------------
(* The memoised filtering step *)

\* searchTerm.trim().toLowerCase()
Normalize(raw) == ToLowerCase(Trim(raw))

\* !term || !jsonData
BypassNoTerm(term, data) == Falsy(data)
BypassNoData(term, data) == term = <<>>
Bypass(term, data) == term = <<>> \/ Falsy(data)

\* filterTree(...) || {}
OrEmpty(v) == IF Falsy(v) THEN EmptyObj ELSE v

\* the callback of useMemo
Filtering(data, raw) ==
    LET term == Normalize(raw)
    IN  IF Bypass(term, data)
        THEN [filteredJson |-> data, matched |-> <<>>]
        ELSE LET f == filterTree(data, term, <<>>, <<>>)
             IN  [filteredJson |-> OrEmpty(f.res), matched |-> f.matches]

----------------------------------------------------------------------------
(* shouldExpandNodeInitially *)

\* pathStr.startsWith(keyPathStr) on the joined paths
PathStartsWithSegments(mp, keyPath) == StartsWith(mp, keyPath)
PathStartsWith(mp, keyPath) == StartsWith(Join(mp), Join(keyPath))

shouldExpandNodeInitially(keyPath, term, paths) ==
    IF term # <<>>
    THEN \E i \in 1..Len(paths) : PathStartsWith(paths[i], keyPath)
    ELSE Len(keyPath) = 1

----------------------------------------------------------------------------
(* Inputs *)

\* raw contents of the search box
Terms ==
    { <<>>, <<" ">>, <<"b">>, <<" ", "B", " ">>, <<"c">>, <<"_">>, <<"0">> }

Leaves ==
    { StrLeaf(<<"a", "B">>), StrLeaf(<<"c">>), StrLeaf(<<>>),
      NumLeaf("0"), BoolLeaf("true"), NullV }

ObjKeys == { <<"a">>, <<"b", "c">>, ProtoKey }

\* the for-in key of array index i - 1
IndexKey(i) == << <<"0", "1", "2", "3", "4">>[i] >>

\* JSON objects with distinct keys, in every insertion order
ObjectsOver(vals, width) ==
    UNION { { [k |-> "obj", s |-> <<>>,
               e |-> [i \in 1..n |-> Entry(ks[i], vs[i])]] :
                 ks \in { f \in [1..n -> ObjKeys] :
                            \A i, j \in 1..n : i # j => f[i] # f[j] },
                 vs \in [1..n -> vals] } : n \in 0..width }

\* JSON arrays: dense, indices 0 .. n-1
ArraysOver(vals, width) ==
    UNION { { [k |-> "arr", s |-> <<>>,
               e |-> [i \in 1..n |-> Entry(IndexKey(i), vs[i])]] :
                 vs \in [1..n -> vals] } : n \in 0..width }

Inner == Leaves \cup ObjectsOver(Leaves, MaxWidth) \cup ArraysOver(Leaves, MaxWidth)

\* every value JSON.parse can hand to setJsonData, two levels deep
Docs == Inner \cup ObjectsOver(Inner, 1) \cup ArraysOver(Inner, 1)

\* key paths the tree viewer asks shouldExpandNodeInitially about
QueryPaths ==
    { <<>>, << <<"a">> >>, << <<"b">> >>, << <<"b", "c">> >>, << <<"0">> >>,
      << <<"a">>, <<"b">> >>, << <<"a">>, <<"b", "c">> >>,
      << <<"a">>, <<"b", "c">>, <<"a">> >> }

\* files the user can pick
File(tooLarge, valid, json) == [tooLarge |-> tooLarge, valid |-> valid, json |-> json]

Files ==
    { File(FALSE, TRUE, [k |-> "obj", s |-> <<>>, e |->
          << Entry(<<"a">>, [k |-> "obj", s |-> <<>>, e |->
                 << Entry(<<"b", "c">>, StrLeaf(<<"a", "B">>)) >>]) >>]),
      File(FALSE, TRUE, [k |-> "arr", s |-> <<>>, e |->
          << Entry(<<"0">>, StrLeaf(<<"c">>)), Entry(<<"1">>, StrLeaf(<<"a", "B">>)) >>]),
      File(FALSE, TRUE, NumLeaf("0")),
      File(FALSE, TRUE, NullV),
      File(FALSE, FALSE, NullV),
      File(TRUE, TRUE, NullV) }

----------------------------------------------------------------------------
(* The component *)

NoMemo == [valid |-> FALSE, data |-> NullV, term |-> <<>>,
           out |-> [filteredJson |-> NullV, matched |-> <<>>]]

NoView == [rendered |-> FALSE, shown |-> FALSE, data |-> NullV, term |-> <<>>,
           filteredJson |-> NullV, matched |-> <<>>, usedPaths |-> <<>>,
           expand |-> {}]

\* what one render computes and shows
ViewOf(data, raw, paths, out) ==
    [rendered |-> TRUE,
     shown |-> ~Falsy(data),
     data |-> data,
     term |-> raw,
     filteredJson |-> out.filteredJson,
     matched |-> out.matched,
     usedPaths |-> paths,
     expand |-> IF ~Falsy(data)
                THEN { P \in QueryPaths : shouldExpandNodeInitially(P, raw, paths) }
                ELSE {}]

\* useState initial values, after the first render and its effect
Init ==
    /\ jsonData = NullV
    /\ searchTerm = <<>>
    /\ matchedPaths = <<>>
    /\ error = "none"
    /\ readers = <<>>
    /\ memo = [valid |-> TRUE, data |-> NullV, term |-> <<>>,
               out |-> Filtering(NullV, <<>>)]
    /\ view = ViewOf(NullV, <<>>, <<>>, Filtering(NullV, <<>>))
    /\ pc = "idle"

\* a render of App: useMemo recomputes when jsonData or searchTerm changed
Render ==
    /\ pc = "render"
    /\ LET hit == memo.valid /\ memo.data = jsonData /\ memo.term = searchTerm
           out == IF hit THEN memo.out ELSE Filtering(jsonData, searchTerm)
       IN  /\ memo' = [valid |-> TRUE, data |-> jsonData, term |-> searchTerm, out |-> out]
           /\ view' = ViewOf(jsonData, searchTerm, matchedPaths, out)
           /\ pc' = IF hit THEN "idle" ELSE "effect"
    /\ UNCHANGED <<jsonData, searchTerm, matchedPaths, error, readers>>

\* useEffect(() => setMatchedPaths(matched), [matched])
Effect ==
    /\ pc = "effect"
    /\ matchedPaths' = view.matched
    /\ pc' = "render"
    /\ UNCHANGED <<jsonData, searchTerm, error, readers, memo, view>>

\* the search box's onChange and its clear button
SetSearchTerm(raw) ==
    /\ pc = "idle"
    /\ view.shown
    /\ raw # searchTerm
    /\ searchTerm' = raw
    /\ pc' = "render"
    /\ UNCHANGED <<jsonData, matchedPaths, error, readers, memo, view>>

handleFileNone ==
    /\ pc = "idle"
    /\ error' = "none"
    /\ jsonData' = NullV
    /\ searchTerm' = <<>>
    /\ matchedPaths' = <<>>
    /\ pc' = "render"
    /\ UNCHANGED <<readers, memo, view>>

handleFile(file) ==
    /\ pc = "idle"
    /\ Len(readers) < MaxReaders
    /\ jsonData' = NullV
    /\ searchTerm' = <<>>
    /\ matchedPaths' = <<>>
    /\ IF file.tooLarge
       THEN error' = "too_large" /\ readers' = readers
       ELSE error' = "none" /\ readers' = Append(readers, file)
    /\ pc' = "render"
    /\ UNCHANGED <<memo, view>>

Remove(seq, i) == SubSeq(seq, 1, i - 1) \o SubSeq(seq, i + 1, Len(seq))

\* reader.onload: JSON.parse, setJsonData, then the extraction, which throws
\* on json.user_types when json is null
ReaderOnload(i) ==
    /\ pc = "idle"
    /\ i \in 1..Len(readers)
    /\ LET file == readers[i]
       IN  /\ jsonData' = IF file.valid THEN file.json ELSE jsonData
           /\ error' = IF ~file.valid \/ file.json = NullV THEN "parse" ELSE error
    /\ readers' = Remove(readers, i)
    /\ pc' = "render"
    /\ UNCHANGED <<searchTerm, matchedPaths, memo, view>>

ReaderOnerror(i) ==
    /\ pc = "idle"
    /\ i \in 1..Len(readers)
    /\ error' = "read"
    /\ readers' = Remove(readers, i)
    /\ pc' = "render"
    /\ UNCHANGED <<jsonData, searchTerm, matchedPaths, memo, view>>

Next ==
    \/ Render
    \/ Effect
    \/ \E raw \in Terms : SetSearchTerm(raw)
    \/ handleFileNone
    \/ \E file \in Files : handleFile(file)
    \/ \E i \in 1..MaxReaders : ReaderOnload(i)
    \/ \E i \in 1..MaxReaders : ReaderOnerror(i)

Spec == Init /\ [][Next]_vars

\* the filtering step on its own: any document, any search box contents
InitFilter ==
    /\ jsonData \in Docs
    /\ searchTerm \in Terms
    /\ matchedPaths = <<>>
    /\ error = "none"
    /\ readers = <<>>
    /\ memo = NoMemo
    /\ view = NoView
    /\ pc = "render"

NextFilter ==
    \/ Render
    \/ Effect

SpecFilter == InitFilter /\ [][NextFilter]_vars

----------------------------------------------------------------------------
(* Vocabulary of the properties *)

Last(path) == path[Len(path)]

InSeq(x, seq) == \E i \in 1..Len(seq) : seq[i] = x

\* q is a proper prefix of p, segment by segment
StrictExt(p, q) == Len(q) < Len(p) /\ SubSeq(p, 1, Len(q)) = q

Missing == [k |-> "missing", s |-> <<>>, e |-> <<>>]

\* position of key among the properties of node, 0 when it has none
Pos(node, key) ==
    IF \E i \in 1..Len(node.e) : node.e[i].key = key
    THEN CHOOSE i \in 1..Len(node.e) : node.e[i].key = key
    ELSE 0

\* the node at a key path
RECURSIVE Lookup(_, _)
Lookup(node, path) ==
    IF path = <<>> THEN node
    ELSE IF Pos(node, Head(path)) = 0 THEN Missing
    ELSE Lookup(node.e[Pos(node, Head(path))].val, Tail(path))

\* every key path of a tree, the root's included
RECURSIVE AllPaths(_)
AllPaths(node) ==
    {<<>>} \cup UNION { { <<node.e[i].key>> \o p : p \in AllPaths(node.e[i].val) } :
                          i \in 1..Len(node.e) }

\* the term filterTree was given in the last render
ViewTerm == Normalize(view.term)

\* the last render ran filterTree
Ran == view.rendered /\ ViewTerm # <<>> /\ ~Falsy(view.data)

IsMatchingLeaf(node) == node.k = "str" /\ Includes(ToLowerCase(node.s), ViewTerm)

HasMatchingKey(path) == \E i \in 1..Len(path) : KeyMatches(path[i], ViewTerm)

\* pruned is obtained from original by dropping properties and nothing else
RECURSIVE IsSubtree(_, _)
IsSubtree(pruned, original) ==
    /\ pruned.k = original.k
    /\ pruned.s = original.s
    /\ \A i \in 1..Len(pruned.e) :
          /\ Pos(original, pruned.e[i].key) # 0
          /\ IsSubtree(pruned.e[i].val, Lookup(original, <<pruned.e[i].key>>))
    /\ \A i, j \in 1..Len(pruned.e) :
          i < j => Pos(original, pruned.e[i].key) < Pos(original, pruned.e[j].key)

\* p is recorded before q in depth-first, children-before-key order
Before(p, q) ==
    IF StrictExt(p, q) THEN TRUE
    ELSE IF StrictExt(q, p) THEN FALSE
    ELSE LET d == CHOOSE n \in 1..Len(p) : p[n] # q[n] /\ SubSeq(p, 1, n - 1) = SubSeq(q, 1, n - 1)
             parent == Lookup(view.data, SubSeq(p, 1, d - 1))
         IN  Pos(parent, p[d]) < Pos(parent, q[d])

\* s begins with p, character by character
CharPrefix(p, s) == Len(p) <= Len(s) /\ \A n \in 1..Len(p) : s[n] = p[n]

----------------------------------------------------------------------------
(* Properties *)

\* C1: when the search term is empty after trimming and lowercasing, the
\* filtering step returns the document itself as the tree and an empty match
\* list; filterTree is not run (it would record every key and string).
C1_EmptyTermIdentity ==
    (view.rendered /\ ViewTerm = <<>>) =>
        (view.filteredJson = view.data /\ view.matched = <<>>)

C1_Witness ==
    /\ view.rendered
    /\ view.term # <<>>
    /\ ViewTerm = <<>>
    /\ view.data.k = "obj"
    /\ Len(view.data.e) = 1
    /\ view.data.e[1].val.k = "arr"
    /\ view.filteredJson = view.data

\* C2 as stated: with a non-empty term and a null document the filtering step
\* returns an empty mapping and an empty match list, never null.
C2_Original ==
    (view.rendered /\ ViewTerm # <<>> /\ view.data = NullV) =>
        (view.filteredJson = EmptyObj /\ view.matched = <<>>)

\* C2 amended: with a non-empty term and a null document the filtering step
\* returns the document itself, null, as the tree and an empty match list; the
\* tree is non-null, the empty mapping when nothing is kept, for every truthy
\* document.
C2_NullDocumentReturned ==
    /\ (view.rendered /\ ViewTerm # <<>> /\ view.data = NullV) =>
           (view.filteredJson = NullV /\ view.matched = <<>>)
    /\ Ran => view.filteredJson # NullV
    /\ (Ran /\ view.matched = <<>>) => view.filteredJson = EmptyObj

C2_Witness ==
    /\ view.rendered
    /\ ViewTerm # <<>>
    /\ view.data = NullV
    /\ view.filteredJson = NullV

\* C3: every string leaf whose lowercased value contains the term has its key
\* path in the match list and is present, at that path, in the pruned tree.
C3_NoFalseNegatives ==
    Ran => \A p \in AllPaths(view.data) :
              IsMatchingLeaf(Lookup(view.data, p)) =>
                  /\ InSeq(p, view.matched)
                  /\ Lookup(view.filteredJson, p) = Lookup(view.data, p)

\* C4: a node of the pruned tree with no matching key on its path is a
\* matching string leaf or a container with at least one entry; only the
\* top-level result may be empty, and only when nothing matched.
C4_NoFalsePositives ==
    Ran => \A p \in AllPaths(view.filteredJson) :
              ~HasMatchingKey(p) =>
                  LET n == Lookup(view.filteredJson, p)
                  IN  \/ IsMatchingLeaf(n)
                      \/ IsContainer(n) /\ n.e # <<>>
                      \/ p = <<>> /\ n = EmptyObj /\ view.matched = <<>>

\* C5: every entry whose lowercased key contains the term is in the pruned
\* tree with its original value in full, and its path is in the match list.
C5_KeyMatchShortCircuit ==
    Ran => \A p \in AllPaths(view.data) \ {<<>>} :
              KeyMatches(Last(p), ViewTerm) =>
                  /\ Lookup(view.filteredJson, p) = Lookup(view.data, p)
                  /\ InSeq(p, view.matched)

C7_AutoExpandRule ==
    (view.shown /\ view.term # <<>>) =>
        /\ \A P \in QueryPaths :
              (P \in view.expand) <=>
                  \E i \in 1..Len(view.usedPaths) :
                      CharPrefix(Join(P), Join(view.usedPaths[i]))
        /\ InSeq(<< <<"a">>, <<"b", "c">> >>, view.usedPaths) =>
              << <<"a">>, <<"b">> >> \in view.expand
        /\ view.usedPaths = <<>> => view.expand = {}

C7_Witness ==
    /\ view.shown
    /\ view.term # <<>>
    /\ view.usedPaths = << << <<"a">>, <<"b", "c">> >> >>
    /\ << <<"a">>, <<"b">> >> \in view.expand
    /\ << <<"b">> >> \notin view.expand

\* C8: the match list is in depth-first, children-before-key order: paths
\* recorded inside an entry's value precede the entry's own path, and those
\* of an earlier sibling precede those of a later one.
C8_MatchOrder ==
    Ran => \A i, j \in 1..Len(view.matched) :
              (i < j /\ view.matched[i] # view.matched[j]) =>
                  Before(view.matched[i], view.matched[j])

C8_Witness ==
    /\ Ran
    /\ Len(view.matched) = 3
    /\ view.matched[1] # view.matched[2]
    /\ StrictExt(view.matched[1], view.matched[3])
    /\ StrictExt(view.matched[2], view.matched[3])

\* C9 as stated: no recorded path strictly extends the path of an entry
\* whose key matched.
C9_Original ==
    Ran => \A i, j \in 1..Len(view.matched) :
              ~(/\ StrictExt(view.matched[j], view.matched[i])
                /\ view.matched[i] # <<>>
                /\ KeyMatches(Last(view.matched[i]), ViewTerm))

\* C9 amended: under an entry whose key matched, the recursive call is still
\* made and still records: every matching string leaf and every matching key
\* inside the entry's value is in the match list, ahead of the entry's path.
C9_SubtreeStillScanned ==
    Ran => \A c \in AllPaths(view.data) \ {<<>>} :
              KeyMatches(Last(c), ViewTerm) =>
                  \A p \in AllPaths(view.data) :
                      (/\ StrictExt(p, c)
                       /\ \/ IsMatchingLeaf(Lookup(view.data, p))
                          \/ KeyMatches(Last(p), ViewTerm)) =>
                          \E i, j \in 1..Len(view.matched) :
                              i < j /\ view.matched[i] = p /\ view.matched[j] = c

C9_Witness ==
    /\ Ran
    /\ \E i, j \in 1..Len(view.matched) :
          /\ i < j
          /\ StrictExt(view.matched[i], view.matched[j])
          /\ view.matched[j] # <<>>
          /\ KeyMatches(Last(view.matched[j]), ViewTerm)
          /\ IsMatchingLeaf(Lookup(view.data, view.matched[i]))

\* C10: in every render of the tree viewer the matchedPaths consulted by
\* shouldExpandNodeInitially is the match list computed for the document and
\* term of that render.
C10_ExpandStateFresh ==
    view.shown => view.usedPaths = view.matched

====
